---- MODULE Spec2Model ----
(***************************************************************************)
(* Fine-tuning and zero-shot inference notebooks (task1.ipynb,            *)
(* task2.ipynb): the stratified split, the fine-tuning run with its       *)
(* checkpoints, and the zero-shot cells with their answer extraction.     *)
(* The notebooks drive sklearn's train_test_split, the transformers       *)
(* Trainer and the text-generation pipeline; the operators below follow   *)
(* what those calls do with the arguments the notebooks pass.             *)
(***************************************************************************)
EXTENDS Integers, Sequences, FiniteSets, TLC

VARIABLES
    task,           \* 1: orientation (task1.ipynb), 2: power (task2.ipynb)
    pc,             \* the statement of the notebook that runs next
    test_size,      \* TRAIN_TEST_SPLIT_RATIO as <<numerator, denominator>>
    data,           \* the loaded DataFrame: a sequence of records
    train,          \* the train partition (empty until the split)
    test,           \* the test partition (empty until the split)
    seeded,         \* the outcome RandomState(RANDOM_STATE) leads to, once drawn
    np_random,      \* the state of numpy's global generator
    splitResults,   \* every <<train, test>> stratified_split has returned
    nSplitCalls,    \* how often stratified_split was called
    drawnBetween,   \* a global random draw happened after the first split
    class_counts,   \* the class counts of a dataset given by its counts alone
    test_counts,    \* per class, the number of its records put in test (empty: none yet)
    train_counts,   \* per class, the number of its records put in train
    tsv_file,       \* the rows of the task's tsv file
    responses,      \* the continuations the text-generation model can emit
    logit_pairs,    \* the logit pairs the classifier can give a record
    test_df,        \* the test set the zero-shot cells read back
    lang,           \* the zero-shot cell that runs: "turkish" or "english"
    column_name,    \* the text column the cell passes on
    prompt_template,\* the template the cell passes to generate_texts
    batch_size,     \* the batch size the cell passes to map
    hf_dataset,     \* per language, the cell's Dataset after limit_text_length
    predictions,    \* per language, the predictions column map has built so far
    continuations,  \* per language, what the model emitted for each prediction
    binary_predictions, \* per language, process_predictions' list (empty until it ran)
    accuracy,       \* per language, <<correct, evaluated>> once computed, else <<>>
    results_csv,    \* per language, the rows of the results file (empty: not written)
    printed,        \* the languages whose accuracy was printed
    loaded,         \* the load cell has bound the name data
    train_csv,      \* the rows of <task>_train.csv (empty: not written)
    test_csv,       \* the rows of <task>_test.csv (empty: not written)
    train_dataset,  \* the tokenized train Dataset (empty until prepared)
    test_dataset,   \* the tokenized test Dataset (empty until prepared)
    epoch,          \* the number of training epochs completed
    model_weights,  \* the epoch whose weights the model holds (0: pretrained)
    eval_loss,      \* the evaluation loss logged at the end of each epoch
    checkpoints,    \* the epochs whose checkpoint is in output_dir
    best_metric,    \* state.best_metric: <<loss>>, or <<>> for None
    best_model_checkpoint, \* state.best_model_checkpoint: <<epoch>>, or <<>> for None
    final_eval,     \* what trainer.evaluate() returned after training: <<loss>>
    evaluated_weights, \* the weights evaluate_model computed its metrics for: <<epoch>>
    saved_model,    \* the weights in ./<task>_multilingual_bert: <<epoch>>
    trainer_log,    \* the calls into the Trainer so far, with their dataset
    eval_dataset,   \* the Trainer's eval_dataset: <<dataset>>, or <<>> before it is built
    logits,         \* predictions.predictions of evaluate_model: a pair per record
    ft_preds,       \* evaluate_model's preds
    ft_accuracy,    \* evaluate_model's accuracy as <<correct, records>>, else <<>>
    ft_f1,          \* evaluate_model's f1 as <<numerator, denominator>>, else <<>>
    error,          \* the exception that ended the run: <<name>>, or <<>> for none
    generated,      \* the <<prompt, continuation>> pairs the model has produced
    cell_runs,      \* the results of the earlier runs of a zero-shot cell
    written,        \* the <<path, task>> pairs: task has written to path
    progress        \* per task, how many of its writes have happened

splitVars == <<data, train, test, seeded, np_random, splitResults, nSplitCalls,
               drawnBetween>>
countVars == <<class_counts, test_counts, train_counts>>
inputVars == <<tsv_file, responses, logit_pairs>>
cellVars == <<lang, column_name, prompt_template, batch_size>>
zsVars == <<test_df, cellVars, hf_dataset, predictions, continuations,
            binary_predictions, accuracy, results_csv, printed>>

fileVars == <<train_csv, test_csv>>
trainerVars == <<epoch, model_weights, eval_loss, checkpoints, best_metric,
                 best_model_checkpoint, final_eval>>
trainVars == <<train_dataset, test_dataset, trainerVars, evaluated_weights,
               saved_model>>
pipeVars == <<fileVars, trainVars>>
evalVars == <<trainer_log, eval_dataset, logits, ft_preds, ft_accuracy, ft_f1>>

envVars == <<error, generated, cell_runs>>
fsVars == <<written, progress>>

vars == <<task, pc, test_size, splitVars, countVars, inputVars, zsVars, loaded,
          pipeVars, evalVars, envVars, fsVars>>

----------------------------------------------------------------------------
(* Bounds of the model *)

MaxRecords == 4
MaxSplitCalls == 2
MaxGlobalDraws == 1
MaxClassCount == 10
MaxTestRecords == 2
MaxLoss == 3
MaxCellRuns == 2

----------------------------------------------------------------------------
(* Global variables of the notebooks *)

RANDOM_STATE == 42
TRAIN_TEST_SPLIT_RATIO == <<1, 10>>

\* The fractions stratified_split is run with: the notebooks' 0.1 and, so that
\* small datasets with two classes can be split at all, one half.
TestSizes == {TRAIN_TEST_SPLIT_RATIO, <<1, 2>>}

Labels == {0, 1}

Languages == {"turkish", "english"}

\* batch_size of the zero-shot cells' map calls
BATCH_SIZE == 8

\* the length limit_text_length cuts the text column to
TEXT_LIMIT == 500

\* max_length of the tokenizer call
MAX_LENGTH == 128

\* num_train_epochs and save_total_limit of TrainingArguments
NUM_TRAIN_EPOCHS == 3
SAVE_TOTAL_LIMIT == 2

----------------------------------------------------------------------------
(* Arithmetic helpers *)

Max(S) == CHOOSE x \in S : \A y \in S : y <= x
Min2(a, b) == IF a <= b THEN a ELSE b

\* ceil(num / den) for num >= 0, den > 0
CeilDiv(num, den) == (num + den - 1) \div den

RECURSIVE SumSeq(_)
SumSeq(s) == IF s = <<>> THEN 0 ELSE s[1] + SumSeq(Tail(s))

\* the ascending sequence of the elements of a finite set of integers
RECURSIVE SortedSeq(_)
SortedSeq(S) ==
    IF S = {} THEN <<>>
    ELSE LET m == CHOOSE x \in S : \A y \in S : x <= y
         IN  <<m>> \o SortedSeq(S \ {m})

\* every permutation of 1..k, for k up to the largest dataset
AllPerms ==
    [k \in 0..MaxRecords |->
        {p \in [1..k -> 1..k] : \A i, j \in 1..k : i # j => p[i] # p[j]}]

\* s.take(p): the elements of s in the order p gives
Take(s, p) == [i \in 1..Len(p) |-> s[p[i]]]

Slice(s, from, to) == [i \in 1..(to - from + 1) |-> s[from + i - 1]]

Range(s) == {s[i] : i \in 1..Len(s)}

----------------------------------------------------------------------------
(* Records *)

\* The text columns of record id: a few characters, some with a digit in them.
TextOf(id) ==
    CASE id = 1 -> <<"a">>
      [] id = 2 -> <<"b", "1">>
      [] id = 3 -> <<"c", "0">>
      [] OTHER  -> <<"d">>

TextEnOf(id) ==
    CASE id = 1 -> <<"e", "0">>
      [] id = 2 -> <<"f">>
      [] id = 3 -> <<"g", "1">>
      [] OTHER  -> <<"h">>

\* a row of the file; nulls names the fields read_csv found missing
MkRecord(id, label) ==
    [id |-> id, text |-> TextOf(id), text_en |-> TextEnOf(id), label |-> label,
     nulls |-> {}]

\* the datasets a tsv file can hold: records 1..n in file order, any labels
Datasets ==
    UNION {{[i \in 1..n |-> MkRecord(i, y[i])] : y \in [1..n -> Labels]} :
           n \in 1..MaxRecords}

----------------------------------------------------------------------------
(* stratified_split: train_test_split(data, test_size, stratify=label,     *)
(* random_state)                                                           *)

\* a test size that is rounded down
FloorTest(n, ts) == (ts[1] * n) \div ts[2]

\* _validate_shuffle_split: n_test = ceil(test_size * n), n_train the rest
NTest(n, ts) == CeilDiv(ts[1] * n, ts[2])
NTrain(n, ts) == n - NTest(n, ts)

\* np.unique(y): the label values that occur, ascending
Classes(d) == SortedSeq({d[i].label : i \in 1..Len(d)})

\* class_indices: per class, the positions of its records in file order
ClassIndices(d, c) == SortedSeq({i \in 1..Len(d) : d[i].label = c})

ClassCounts(d) ==
    LET cl == Classes(d)
    IN  [k \in 1..Len(cl) |-> Len(ClassIndices(d, cl[k]))]

\* _approximate_mode's loop over the remainders, largest first: the classes of
\* one remainder value share what is left to add, rng.choice picking among them.
\* The result is the set of count vectors the generator can lead to.
RECURSIVE AddByRemainder(_, _, _, _)
AddByRemainder(floored, remainder, values, need) ==
    IF need = 0 \/ values = {} THEN {floored}
    ELSE LET value == Max(values)
             inds == {i \in DOMAIN remainder : remainder[i] = value}
             add_now == Min2(Cardinality(inds), need)
         IN  UNION {AddByRemainder(
                        [i \in DOMAIN floored |->
                            IF i \in chosen THEN floored[i] + 1 ELSE floored[i]],
                        remainder, values \ {value}, need - add_now) :
                    chosen \in {S \in SUBSET inds : Cardinality(S) = add_now}}

\* _approximate_mode(class_counts, n_draws, rng): n_draws spread over the
\* classes in proportion to class_counts, each class getting the floor of its
\* share and the largest remainders one more.
ApproximateMode(counts, n_draws) ==
    LET total == SumSeq(counts)
        floored == [i \in DOMAIN counts |-> (counts[i] * n_draws) \div total]
        remainder == [i \in DOMAIN counts |-> (counts[i] * n_draws) % total]
        need_to_add == n_draws - SumSeq(floored)
    IN  AddByRemainder(floored, remainder,
                       {remainder[i] : i \in DOMAIN remainder}, need_to_add)

\* a split that raises on a dataset without records and on no other
RaisesOnEmptyDataOnly(counts, ts) == SumSeq(counts) = 0

\* The ValueErrors of train_test_split: an empty train set, a class with one
\* member, fewer train or test records than classes.
SplitRaisesCounts(counts, ts) ==
    LET n == SumSeq(counts)
    IN  \/ NTrain(n, ts) = 0
        \/ \E k \in DOMAIN counts : counts[k] < 2
        \/ NTrain(n, ts) < Len(counts)
        \/ NTest(n, ts) < Len(counts)

SplitRaises(d, ts) == SplitRaisesCounts(ClassCounts(d), ts)

\* a split that ignores stratify: any n_test records, whatever their classes
UnstratifiedSplitCounts(counts, ts) ==
    {<<[k \in DOMAIN counts |-> counts[k] - t[k]], t>> :
        t \in {u \in [DOMAIN counts -> 0..Max(Range(counts))] :
                  /\ \A k \in DOMAIN counts : u[k] <= counts[k]
                  /\ SumSeq(u) = NTest(SumSeq(counts), ts)}}

\* <<n_i, t_i>>: per class, the number of its records that go to train and to
\* test: n_i spreads n_train over the classes, t_i spreads n_test over what n_i
\* leaves of each class
SplitCounts(counts, ts) ==
    UNION {{<<n_i, t_i>> :
                t_i \in ApproximateMode([k \in DOMAIN counts |-> counts[k] - n_i[k]],
                                        NTest(SumSeq(counts), ts))} :
           n_i \in ApproximateMode(counts, NTrain(SumSeq(counts), ts))}

\* a test slice that starts one position early, inside the train slice
RECURSIVE ExtendOverlap(_, _, _, _, _)
ExtendOverlap(d, perms, n_i, t_i, k) ==
    IF k > Len(n_i) THEN [train |-> <<>>, test |-> <<>>]
    ELSE LET perm_indices == Take(ClassIndices(d, Classes(d)[k]), perms[k])
             rest == ExtendOverlap(d, perms, n_i, t_i, k + 1)
         IN  [train |-> Slice(perm_indices, 1, n_i[k]) \o rest.train,
              test  |-> Slice(perm_indices, n_i[k], n_i[k] + t_i[k] - 1)
                        \o rest.test]

\* the positions StratifiedShuffleSplit puts into train and test, class by
\* class, before the final shuffles
RECURSIVE Extend(_, _, _, _, _)
Extend(d, perms, n_i, t_i, k) ==
    IF k > Len(n_i) THEN [train |-> <<>>, test |-> <<>>]
    ELSE LET perm_indices == Take(ClassIndices(d, Classes(d)[k]), perms[k])
             rest == Extend(d, perms, n_i, t_i, k + 1)
         IN  [train |-> Slice(perm_indices, 1, n_i[k]) \o rest.train,
              test  |-> Slice(perm_indices, n_i[k] + 1, n_i[k] + t_i[k])
                        \o rest.test]

\* one permutation per class
ClassPerms(counts) ==
    {ps \in [DOMAIN counts -> UNION {AllPerms[counts[k]] : k \in DOMAIN counts}] :
        \A k \in DOMAIN counts : ps[k] \in AllPerms[counts[k]]}

\* every <<train, test>> the split can return for d, over all the generator's
\* draws: the ties of _approximate_mode, the permutation of each class, the
\* final permutations of train and test
SplitOutcomes(d, ts) ==
    LET counts == ClassCounts(d)
    IN  UNION {UNION {
            LET pre == Extend(d, perms, nt[1], nt[2], 1)
            IN  {<<Take(d, Take(pre.train, ptrain)), Take(d, Take(pre.test, ptest))>> :
                     ptrain \in AllPerms[Len(pre.train)],
                     ptest \in AllPerms[Len(pre.test)]} :
            perms \in ClassPerms(counts)} :
            nt \in SplitCounts(counts, ts)}

----------------------------------------------------------------------------
(* load_and_preprocess_data *)

\* the rows a tsv file can hold: row i has id i, a label, and possibly a
\* missing text or a missing label
RawRows(i) ==
    {MkRecord(i, l) : l \in Labels}
        \cup {[MkRecord(i, l) EXCEPT !.text = <<>>, !.nulls = {"text"}] : l \in Labels}
        \cup {[MkRecord(i, 0) EXCEPT !.nulls = {"label"}]}
        \cup {[MkRecord(i, 1) EXCEPT !.nulls = {"speaker"}]}

RECURSIVE RawFilesOfLen(_)
RawFilesOfLen(n) ==
    IF n = 0 THEN {<<>>}
    ELSE {Append(f, r) : f \in RawFilesOfLen(n - 1), r \in RawRows(n)}

RawFiles == UNION {RawFilesOfLen(n) : n \in 1..MaxRecords}

\* a dropna that looks at the text and the label alone
HasNullTextOrLabel(r) == r.nulls \cap {"text", "label"} # {}

\* isnull() of some field of the row
HasNull(r) == r.nulls # {}

\* data.dropna(): the rows without a missing value, in file order
RECURSIVE dropna(_)
dropna(rows) ==
    IF rows = <<>> THEN <<>>
    ELSE IF HasNull(rows[1]) THEN dropna(Tail(rows))
         ELSE <<rows[1]>> \o dropna(Tail(rows))

\* load_and_preprocess_data(filepath) with drop_na=True
load_and_preprocess_data(rows) == dropna(rows)

----------------------------------------------------------------------------
(* The cells that load and split *)

\* cell 9: data = load_and_preprocess_data(file)
LoadCell ==
    /\ pc = "load"
    /\ data' = load_and_preprocess_data(tsv_file)
    /\ loaded' = TRUE
    /\ pc' = "split"
    /\ UNCHANGED <<task, evalVars, test_size, train, test, seeded, np_random, splitResults,
                   nSplitCalls, drawnBetween, countVars, inputVars, envVars, fsVars,
                   pipeVars,
                   zsVars>>

\* a generator that is not seeded draws from the global state, and can lead to
\* any of the outcomes at every call
UnseededRandomState(outcomes) == outcomes

\* check_random_state(RANDOM_STATE): a fresh RandomState(42) at every call, whose
\* draws, and so the outcome they lead to among outcomes, are those of the
\* first call
check_random_state(outcomes) == IF seeded = {} THEN outcomes ELSE seeded

\* cell 10: train, test = stratified_split(data)
StratifiedSplitCell ==
    /\ pc = "split"
    /\ nSplitCalls < MaxSplitCalls
    /\ nSplitCalls' = nSplitCalls + 1
    /\ IF SplitRaises(data, test_size)
       THEN /\ pc' = "failed"
            /\ error' = <<"ValueError">>
            /\ UNCHANGED <<train, test, seeded, splitResults>>
       ELSE \E res \in check_random_state(SplitOutcomes(data, test_size)) :
                /\ seeded' = {res}
                /\ train' = res[1]
                /\ test' = res[2]
                /\ splitResults' = splitResults \cup {res}
                /\ pc' = "save"
                /\ UNCHANGED error
    /\ UNCHANGED <<task, evalVars, test_size, data, np_random, drawnBetween, countVars,
                   inputVars, generated, cell_runs, fsVars, loaded, pipeVars,
                   zsVars>>

\* the split cell is run again
RerunSplitCell ==
    /\ pc = "save"
    /\ nSplitCalls < MaxSplitCalls
    /\ pc' = "split"
    /\ UNCHANGED <<task, evalVars, test_size, splitVars, countVars, inputVars, envVars, fsVars,
                   loaded, pipeVars, zsVars>>

\* any other code draws from numpy's global generator
GlobalRandomDraw ==
    /\ np_random < MaxGlobalDraws
    /\ np_random' = np_random + 1
    /\ drawnBetween' = (drawnBetween \/ nSplitCalls > 0)
    /\ UNCHANGED <<task, evalVars, pc, test_size, data, train, test, seeded, splitResults,
                   nSplitCalls, countVars, inputVars, envVars, fsVars,
                   loaded, pipeVars, zsVars>>

ZeroShotIdle ==
    /\ test_df = <<>>
    /\ lang = "turkish" /\ column_name = "text" /\ prompt_template = <<>>
    /\ batch_size = BATCH_SIZE
    /\ hf_dataset = [l \in Languages |-> <<>>]
    /\ predictions = [l \in Languages |-> <<>>]
    /\ continuations = [l \in Languages |-> <<>>]
    /\ binary_predictions = [l \in Languages |-> <<>>]
    /\ accuracy = [l \in Languages |-> <<>>]
    /\ results_csv = [l \in Languages |-> <<>>]
    /\ printed = {}

SplitIdle ==
    /\ data = <<>> /\ train = <<>> /\ test = <<>>
    /\ seeded = {}
    /\ np_random = 0
    /\ splitResults = {}
    /\ nSplitCalls = 0
    /\ drawnBetween = FALSE

CountsIdle == class_counts = <<>> /\ test_counts = <<>> /\ train_counts = <<>>

EnvIdle ==
    /\ error = <<>>
    /\ generated = {}
    /\ cell_runs = {}
    /\ written = {}
    /\ progress = <<0, 0>>

TrainerIdle ==
    /\ epoch = 0
    /\ model_weights = 0
    /\ eval_loss = <<>>
    /\ checkpoints = <<>>
    /\ best_metric = <<>>
    /\ best_model_checkpoint = <<>>
    /\ final_eval = <<>>
    /\ evaluated_weights = <<>>
    /\ saved_model = <<>>
    /\ trainer_log = <<>>
    /\ eval_dataset = <<>>
    /\ logits = <<>>
    /\ ft_preds = <<>>
    /\ ft_accuracy = <<>>
    /\ ft_f1 = <<>>

FilesIdle ==
    /\ loaded = FALSE
    /\ train_csv = <<>> /\ test_csv = <<>>

PipelineIdle ==
    /\ FilesIdle
    /\ train_dataset = <<>> /\ test_dataset = <<>>
    /\ TrainerIdle
    /\ EnvIdle

InitSplit ==
    /\ task = 1
    /\ pc = "load"
    /\ test_size \in TestSizes
    /\ tsv_file \in RawFiles
    /\ responses = {}
    /\ logit_pairs = {}
    /\ SplitIdle
    /\ CountsIdle
    /\ ZeroShotIdle
    /\ PipelineIdle

NextSplit == LoadCell \/ StratifiedSplitCell \/ RerunSplitCell \/ GlobalRandomDraw

SpecSplit == InitSplit /\ [][NextSplit]_vars

----------------------------------------------------------------------------
(* The split of a dataset given by its class counts alone: the same counts  *)
(* n_i and t_i, for datasets too large to shuffle record by record          *)

\* 100 records, 40 labelled 0 and 60 labelled 1
ScenarioCounts == <<40, 60>>

CountVectors ==
    {<<a>> : a \in 1..MaxClassCount}
        \cup {<<a, b>> : a \in 1..MaxClassCount, b \in 1..MaxClassCount}
        \cup {ScenarioCounts}

\* stratified_split on a dataset with these class counts
StratifiedSplitCounts ==
    /\ pc = "split"
    /\ IF SplitRaisesCounts(class_counts, test_size)
       THEN /\ pc' = "failed"
            /\ error' = <<"ValueError">>
            /\ UNCHANGED <<test_counts, train_counts>>
       ELSE \E nt \in SplitCounts(class_counts, test_size) :
                /\ train_counts' = nt[1]
                /\ test_counts' = nt[2]
                /\ pc' = "save"
                /\ UNCHANGED error
    /\ UNCHANGED <<task, evalVars, test_size, splitVars, class_counts, inputVars, generated,
                   cell_runs, fsVars, loaded, pipeVars, zsVars>>

InitCounts ==
    /\ task = 1
    /\ pc = "split"
    /\ test_size \in TestSizes
    /\ tsv_file = <<>>
    /\ responses = {}
    /\ logit_pairs = {}
    /\ SplitIdle
    /\ ZeroShotIdle
    /\ PipelineIdle
    /\ class_counts \in CountVectors
    /\ test_counts = <<>>
    /\ train_counts = <<>>

NextCounts == StratifiedSplitCounts

SpecCounts == InitCounts /\ [][NextCounts]_vars

\* the class counts of the two datasets, as the notebooks' outputs record them:
\* 16138 records of task 1 and 17384 of task 2
RecordedCounts == {<<6748, 9390>>, <<8452, 8932>>}

InitSizes ==
    /\ task = 1
    /\ pc = "split"
    /\ test_size \in TestSizes
    /\ tsv_file = <<>>
    /\ responses = {}
    /\ logit_pairs = {}
    /\ SplitIdle
    /\ ZeroShotIdle
    /\ PipelineIdle
    /\ class_counts \in CountVectors \cup RecordedCounts
    /\ test_counts = <<>>
    /\ train_counts = <<>>

NextSizes == StratifiedSplitCounts

SpecSizes == InitSizes /\ [][NextSizes]_vars

\* C29: after a split that succeeded on n records the test set has ceil(f n)
\* records, the least k with k >= f n, and the train set the n - ceil(f n)
\* others; at 0.1 the 16138 records of task 1 give 1614 and 14524, the 17384
\* of task 2 give 1739 and 15645.
C29_PartitionSizes ==
    test_counts # <<>> =>
        LET n == SumSeq(class_counts)
            n_test == SumSeq(test_counts)
            n_train == SumSeq(train_counts)
        IN  /\ n_test * test_size[2] >= test_size[1] * n
            /\ (n_test - 1) * test_size[2] < test_size[1] * n
            /\ n_train = n - n_test
            /\ (n = 16138 /\ test_size = TRAIN_TEST_SPLIT_RATIO) =>
                   (n_test = 1614 /\ n_train = 14524)
            /\ (n = 17384 /\ test_size = TRAIN_TEST_SPLIT_RATIO) =>
                   (n_test = 1739 /\ n_train = 15645)

\* the 17384 records of task 2 were split at 0.1
C29_Witness ==
    /\ pc = "save"
    /\ class_counts = <<8452, 8932>>
    /\ test_size = TRAIN_TEST_SPLIT_RATIO
    /\ SumSeq(test_counts) = 1739
    /\ test_counts = <<845, 894>>


----------------------------------------------------------------------------
(* Properties of the split *)

Abs(x) == IF x < 0 THEN -x ELSE x

NoDuplicates(s) == Cardinality(Range(s)) = Len(s)

\* C3: whenever stratified_split has returned, train and test are disjoint,
\* together they hold exactly the records of the dataset, and no record occurs
\* twice.
C3_Partition ==
    \A res \in splitResults :
        /\ Range(res[1]) \cap Range(res[2]) = {}
        /\ Range(res[1]) \cup Range(res[2]) = Range(data)
        /\ NoDuplicates(res[1] \o res[2])
        /\ Len(res[1]) + Len(res[2]) = Len(data)

\* a split of two classes has returned, with both sides holding several records
C3_Witness ==
    /\ pc = "save"
    /\ Len(train) >= 2 /\ Len(test) >= 2
    /\ {r.label : r \in Range(test)} = Labels

\* C6 as claimed: per label, the number of records in test is within 1 of
\* test_size times the number of records of that label, and the test set size
\* is within 1 of test_size times the dataset size.
C6_WithinOneOfFraction ==
    test_counts # <<>> =>
        /\ \A k \in DOMAIN class_counts :
              Abs(test_counts[k] * test_size[2] - test_size[1] * class_counts[k])
                  <= test_size[2]
        /\ Abs(SumSeq(test_counts) * test_size[2] - test_size[1] * SumSeq(class_counts))
              <= test_size[2]

\* C6 as amended: per label, the number of records in test is within 1 of
\* |test| / |D| times the number of records of that label, and less than 2
\* from test_size times it; the test set has ceil(test_size * |D|) records,
\* which is within 1 of test_size times |D|; 40 and 60 records at 0.1 give 4
\* and 6.
C6_WithinOneOfShare ==
    test_counts # <<>> =>
        LET n == SumSeq(class_counts)
            n_test == SumSeq(test_counts)
        IN  /\ \A k \in DOMAIN class_counts :
                  /\ Abs(test_counts[k] * n - n_test * class_counts[k]) <= n
                  /\ Abs(test_counts[k] * test_size[2] - test_size[1] * class_counts[k])
                        < 2 * test_size[2]
            /\ n_test * test_size[2] >= test_size[1] * n
            /\ n_test * test_size[2] < test_size[1] * n + test_size[2]
            /\ (class_counts = ScenarioCounts /\ test_size = TRAIN_TEST_SPLIT_RATIO)
                  => test_counts = <<4, 6>>

\* the scenario's dataset has been split
C6_Witness ==
    /\ class_counts = ScenarioCounts
    /\ test_size = TRAIN_TEST_SPLIT_RATIO
    /\ test_counts = <<4, 6>>

\* C7: every call of stratified_split on the loaded dataset, with the
\* notebook's test size and seed, returns the same train and the same test
\* sequence, whatever was drawn from the global generator in between.
C7_Deterministic == Cardinality(splitResults) <= 1

\* the split ran twice on a dataset with several possible outcomes, with a
\* global draw in between
C7_Witness ==
    /\ nSplitCalls = 2
    /\ pc = "save"
    /\ drawnBetween
    /\ Len(data) >= 3

C15_NoMissingFields ==
    /\ loaded =>
           /\ \A i \in 1..Len(data) : data[i].nulls = {}
           /\ \A j \in 1..Len(tsv_file) :
                  tsv_file[j].nulls = {} <=> \E i \in 1..Len(data) : data[i] = tsv_file[j]
           /\ Len(data) = Cardinality({j \in 1..Len(tsv_file) : tsv_file[j].nulls = {}})
           /\ \A i, k \in 1..Len(data) : i < k => data[i].id < data[k].id
    /\ \A res \in splitResults : \A side \in 1..2 : \A i \in 1..Len(res[side]) :
           res[side][i].nulls = {}

\* a file with a row without a speaker, a row without a text and two complete
\* rows was loaded and split
C15_Witness ==
    /\ splitResults # {}
    /\ \E j \in 1..Len(tsv_file) : tsv_file[j].nulls = {"speaker"}
    /\ \E j \in 1..Len(tsv_file) : tsv_file[j].nulls = {"text"}
    /\ Len(data) = 2

\* C16: on a file with a row that has a missing field no split is attempted.
C16_NoSplitOnMissingRecords ==
    (\E j \in 1..Len(tsv_file) : tsv_file[j].nulls # {}) =>
        (nSplitCalls = 0 /\ splitResults = {})

----------------------------------------------------------------------------
(* Zero-shot inference: strings are sequences of characters *)

\* The prompts of the zero-shot cells, their words cut to a letter each; the
\* token "{text}" is the replacement field.
turkish_prompt(t) ==
    IF t = 1
    THEN <<"s", "(", "0", ")", "g", "(", "1", ")", ":", "{text}", "C", ":">>
    ELSE <<"h", "(", "0", ")", "m", "(", "1", ")", ":", "{text}", "C", ":">>

english_prompt(t) ==
    IF t = 1
    THEN <<"l", "(", "0", ")", "r", "(", "1", ")", ":", "{text}", "A", ":">>
    ELSE <<"g", "(", "0", ")", "o", "(", "1", ")", ":", "{text}", "A", ":">>

\* generate_texts' default prompt_template, "Classify the text"
DefaultTemplate == <<"K">>

\* a template a caller of generate_texts can pass: the text and no digit
PlainTemplate == <<"T", ":", "{text}">>

\* what the model can continue a prompt with: "Answer: 1", " 1", " 0", "10",
\* "x" and nothing
AnswerOne == <<"A", ":", " ", "1">>
Continuations == {AnswerOne, <<" ", "1">>, <<" ", "0">>, <<"1", "0">>, <<"x">>, <<>>}

\* prompt_template.format(text=text)
RECURSIVE Format(_, _)
Format(template, text) ==
    IF template = <<>> THEN <<>>
    ELSE (IF Head(template) = "{text}" THEN text ELSE <<Head(template)>>)
             \o Format(Tail(template), text)

\* s[:k]
Prefix(s, k) == IF Len(s) <= k THEN s ELSE SubSeq(s, 1, k)

\* str.strip(): without its leading and trailing blanks
RECURSIVE LStrip(_)
LStrip(s) == IF s # <<>> /\ Head(s) = " " THEN LStrip(Tail(s)) ELSE s

RECURSIVE RStrip(_)
RStrip(s) ==
    IF s # <<>> /\ s[Len(s)] = " " THEN RStrip(SubSeq(s, 1, Len(s) - 1)) ELSE s

Strip(s) == RStrip(LStrip(s))

\* c in s, for a character c
Contains(s, c) == \E i \in 1..Len(s) : s[i] = c

\* the value of a record's column
Column(r, name) == IF name = "text" THEN r.text ELSE r.text_en

\* a limit_text_length that leaves the column as it is
unlimited_text_length(dataset, name) == dataset

\* limit_text_length(dataset, column_name): the column cut to its first
\* TEXT_LIMIT characters, in every row
limit_text_length(dataset, name) ==
    [i \in 1..Len(dataset) |->
        IF name = "text"
        THEN [dataset[i] EXCEPT !.text = Prefix(dataset[i].text, TEXT_LIMIT)]
        ELSE [dataset[i] EXCEPT !.text_en = Prefix(dataset[i].text_en, TEXT_LIMIT)]]

\* a pipeline that returns the new text alone (return_full_text=False)
new_text_pipeline(prompts, emitted) == emitted

\* causal_pipeline(prompts, max_new_tokens=10): per prompt, generated_text is
\* the prompt followed by what the model emits (the pipeline returns the full
\* text unless asked otherwise)
causal_pipeline(prompts, emitted) ==
    [i \in 1..Len(prompts) |-> prompts[i] \o emitted[i]]

\* generate_texts(batch, column_name, prompt_template): the predictions of one
\* batch, the model emitting emitted[i] for the i-th prompt
BatchPrompts(batch, name, template) ==
    [i \in 1..Len(batch) |-> Format(template, Column(batch[i], name))]

generate_texts(batch, name, template, emitted) ==
    LET prompts == BatchPrompts(batch, name, template)
        outputs == causal_pipeline(prompts, emitted)
    IN  [i \in 1..Len(outputs) |-> Strip(outputs[i])]

\* a pipeline that runs the prompts of a call as one padded batch: what it
\* emits for a prompt can depend on how many prompts the call has
PaddedBatchInput(prompts, i) == <<prompts[i], Len(prompts)>>

\* what the emitted text of the i-th prompt of a call depends on: the pipeline
\* is built without a batch_size, so it runs the prompts of a list one by one,
\* and bloomz-1b1 decodes greedily: the prompt alone
PipelineInput(prompts, i) == <<prompts[i], 1>>

\* the model is a function: emitted agrees with what it has produced before
\* for the same input, and with itself
AgreesWithModel(prompts, emitted) ==
    /\ \A i \in 1..Len(prompts) : \A g \in generated :
           g[1] = PipelineInput(prompts, i) => g[2] = emitted[i]
    /\ \A i, j \in 1..Len(prompts) :
           PipelineInput(prompts, i) = PipelineInput(prompts, j)
               => emitted[i] = emitted[j]

\* an optional label: <<>> is Python's None
Unknown == <<>>
Known(l) == <<l>>

\* the label of the digit that comes first in pred
first_digit_label(pred) ==
    IF ~(Contains(pred, "0") \/ Contains(pred, "1")) THEN Unknown
    ELSE LET i == CHOOSE j \in 1..Len(pred) :
                      /\ pred[j] \in {"0", "1"}
                      /\ \A k \in 1..(j - 1) : pred[k] \notin {"0", "1"}
         IN  IF pred[i] = "0" THEN Known(0) ELSE Known(1)

\* the body of process_predictions' loop, for one prediction
binary_label(pred) ==
    IF Contains(pred, "0") THEN Known(0)
    ELSE IF Contains(pred, "1") THEN Known(1)
    ELSE Unknown

\* process_predictions(predictions)
RECURSIVE process_predictions(_)
process_predictions(preds) ==
    IF preds = <<>> THEN <<>>
    ELSE <<binary_label(Head(preds))>> \o process_predictions(Tail(preds))

\* an accuracy over the records with a known label only
accuracy_of_known(binary, dataset) ==
    LET known == {i \in 1..Len(binary) : binary[i] # Unknown}
    IN  <<Cardinality({i \in known : binary[i] = Known(dataset[i].label)}),
          Cardinality(known)>>

\* correct_predictions = [binary == label for binary, label in zip(...)] and
\* sum(correct_predictions) / len(correct_predictions), as <<sum, len>>
RECURSIVE SumCorrect(_, _)
SumCorrect(binary, dataset) ==
    IF binary = <<>> \/ dataset = <<>> THEN 0
    ELSE (IF Head(binary) = Known(Head(dataset).label) THEN 1 ELSE 0)
             + SumCorrect(Tail(binary), Tail(dataset))

zero_shot_accuracy(binary, dataset) ==
    <<SumCorrect(binary, dataset), Min2(Len(binary), Len(dataset))>>

\* a map that puts each batch's rows before the rows it already has
map_prepend(done, out) == out \o done

\* Dataset.map(..., batched=True): the rows a batch returns follow the rows of
\* the batches before it
map_append(done, out) == done \o out

----------------------------------------------------------------------------
(* The steps of a zero-shot cell; results_turkish, results_english and the  *)
(* other names with a language in them are one variable per language        *)

NonePerLanguage == [l \in Languages |-> <<>>]

\* a working copy that is the dataset the Turkish cell has already cut
shared_working_copy(df) ==
    IF hf_dataset["turkish"] # <<>> THEN hf_dataset["turkish"] ELSE df

\* Dataset.from_pandas(df): a new Dataset with the rows and columns of df
from_pandas(df) == df

\* Dataset.from_pandas(test) and limit_text_length
LimitTextStep ==
    /\ pc = "zs_limit"
    /\ hf_dataset' =
           [hf_dataset EXCEPT ![lang] =
               limit_text_length(from_pandas(test_df), column_name)]
    /\ pc' = "zs_map"
    /\ UNCHANGED <<task, evalVars, test_size, splitVars, countVars, inputVars, envVars, fsVars,
                   loaded, pipeVars, test_df,
                   cellVars, predictions, continuations, binary_predictions,
                   accuracy, results_csv, printed>>

\* map calls generate_texts on the next batch_size rows; the pipeline call
\* returns, or raises and ends the cell
MapBatchStep ==
    /\ pc = "zs_map"
    /\ Len(predictions[lang]) < Len(hf_dataset[lang])
    /\ LET from == Len(predictions[lang]) + 1
           to == Min2(Len(predictions[lang]) + batch_size, Len(hf_dataset[lang]))
           batch == SubSeq(hf_dataset[lang], from, to)
           prompts == BatchPrompts(batch, column_name, prompt_template)
       IN  \/ \E emitted \in [1..Len(batch) -> responses] :
                  /\ AgreesWithModel(prompts, emitted)
                  /\ predictions' =
                         [predictions EXCEPT ![lang] =
                             map_append(@, generate_texts(batch, column_name,
                                                          prompt_template, emitted))]
                  /\ continuations' = [continuations EXCEPT ![lang] = @ \o emitted]
                  /\ generated' =
                         generated \cup {<<PipelineInput(prompts, i), emitted[i]>> :
                                            i \in 1..Len(batch)}
                  /\ UNCHANGED <<pc, error>>
           \/ /\ pc' = "failed"
              /\ error' = <<"PipelineError">>
              /\ UNCHANGED <<predictions, continuations, generated>>
    /\ UNCHANGED <<task, evalVars, test_size, splitVars, countVars, inputVars, cell_runs,
                   fsVars, loaded, pipeVars, test_df, cellVars, hf_dataset,
                   binary_predictions, accuracy, results_csv, printed>>

\* binary_predictions = process_predictions(results["predictions"]), added as
\* a column
ProcessPredictionsStep ==
    /\ pc = "zs_map"
    /\ Len(predictions[lang]) = Len(hf_dataset[lang])
    /\ binary_predictions' =
           [binary_predictions EXCEPT ![lang] = process_predictions(predictions[lang])]
    /\ pc' = "zs_accuracy"
    /\ UNCHANGED <<task, evalVars, test_size, splitVars, countVars, inputVars, envVars, fsVars,
                   loaded, pipeVars, test_df,
                   cellVars, hf_dataset, predictions, continuations, accuracy,
                   results_csv, printed>>

\* correct_predictions and accuracy; the division raises on an empty test set
AccuracyStep ==
    /\ pc = "zs_accuracy"
    /\ IF hf_dataset[lang] = <<>>
       THEN pc' = "failed" /\ error' = <<"ZeroDivisionError">> /\ UNCHANGED accuracy
       ELSE /\ accuracy' =
                   [accuracy EXCEPT ![lang] =
                       zero_shot_accuracy(binary_predictions[lang], hf_dataset[lang])]
            /\ pc' = "zs_csv"
            /\ UNCHANGED error
    /\ UNCHANGED <<task, evalVars, test_size, splitVars, countVars, inputVars, generated,
                   cell_runs, fsVars,
                   loaded, pipeVars, test_df,
                   cellVars, hf_dataset, predictions, continuations,
                   binary_predictions, results_csv, printed>>

\* results.to_pandas().to_csv(...): the rows with their two new columns are
\* written, or the write raises and ends the cell
SaveResultsStep ==
    /\ pc = "zs_csv"
    /\ \/ /\ results_csv' =
                 [results_csv EXCEPT ![lang] =
                     [i \in 1..Len(hf_dataset[lang]) |->
                         [row |-> hf_dataset[lang][i],
                          predictions |-> predictions[lang][i],
                          binary_predictions |-> binary_predictions[lang][i]]]]
          /\ pc' = "zs_print"
          /\ UNCHANGED error
       \/ /\ pc' = "failed"
          /\ error' = <<"OSError">>
          /\ UNCHANGED results_csv
    /\ UNCHANGED <<task, evalVars, test_size, splitVars, countVars, inputVars, generated,
                   cell_runs, fsVars,
                   loaded, pipeVars, test_df,
                   cellVars, hf_dataset, predictions, continuations,
                   binary_predictions, accuracy, printed>>

\* print(f"Zero-Shot Inference Accuracy ...")
PrintAccuracyStep ==
    /\ pc = "zs_print"
    /\ printed' = printed \cup {lang}
    /\ pc' = IF lang = "turkish" THEN "english_cell" ELSE "done"
    /\ UNCHANGED <<task, evalVars, test_size, splitVars, countVars, inputVars, envVars, fsVars,
                   loaded, pipeVars, test_df,
                   cellVars, hf_dataset, predictions, continuations,
                   binary_predictions, accuracy, results_csv>>

ZeroShotSteps ==
    \/ LimitTextStep
    \/ MapBatchStep
    \/ ProcessPredictionsStep
    \/ AccuracyStep
    \/ SaveResultsStep
    \/ PrintAccuracyStep

\* the test sets a processed test file can hold
TestSets ==
    UNION {{[i \in 1..n |-> MkRecord(i, y[i])] : y \in [1..n -> Labels]} :
           n \in 1..MaxTestRecords}

BatchSizes == {1, 2, BATCH_SIZE}

\* a zero-shot run on a test set: either cell of either notebook, or
\* generate_texts with its default template, at any batch size
InitZeroShot ==
    /\ task \in {1, 2}
    /\ pc = "zs_limit"
    /\ test_size = TRAIN_TEST_SPLIT_RATIO
    /\ tsv_file = <<>>
    /\ responses = Continuations
    /\ logit_pairs = {}
    /\ SplitIdle
    /\ CountsIdle
    /\ PipelineIdle
    /\ test_df \in TestSets
    /\ \/ lang = "turkish" /\ column_name = "text"
          /\ prompt_template \in {turkish_prompt(task), DefaultTemplate, PlainTemplate}
       \/ lang = "english" /\ column_name = "text_en"
          /\ prompt_template \in {english_prompt(task), DefaultTemplate, PlainTemplate}
    /\ batch_size \in BatchSizes
    /\ hf_dataset = NonePerLanguage
    /\ predictions = NonePerLanguage
    /\ continuations = NonePerLanguage
    /\ binary_predictions = NonePerLanguage
    /\ accuracy = NonePerLanguage
    /\ results_csv = NonePerLanguage
    /\ printed = {}

NextZeroShot == ZeroShotSteps

SpecZeroShot == InitZeroShot /\ [][NextZeroShot]_vars

----------------------------------------------------------------------------
(* Properties of the zero-shot cells *)

\* the prompt generate_texts builds for row i of language l's dataset
PromptOf(l, i) ==
    Format(IF l = lang THEN prompt_template
           ELSE IF l = "turkish" THEN turkish_prompt(task) ELSE english_prompt(task),
           Column(hf_dataset[l][i], IF l = "turkish" THEN "text" ELSE "text_en"))

\* C1: the extracted label of every prediction is 0 if the prediction holds a
\* "0" at any position, else 1 if it holds a "1" at any position, else unknown.
C1_PriorityRule ==
    \A l \in Languages : \A i \in 1..Len(binary_predictions[l]) :
        LET pred == predictions[l][i]
            zeros == {j \in 1..Len(pred) : pred[j] = "0"}
            ones == {j \in 1..Len(pred) : pred[j] = "1"}
        IN  /\ zeros # {} => binary_predictions[l][i] = Known(0)
            /\ (zeros = {} /\ ones # {}) => binary_predictions[l][i] = Known(1)
            /\ (zeros = {} /\ ones = {}) => binary_predictions[l][i] = Unknown

\* labels were extracted from a prediction whose first digit is a "1" with a
\* "0" after it, and from one without a digit
C1_Witness ==
    \E l \in Languages :
        /\ \E i \in 1..Len(binary_predictions[l]) :
               /\ \E j, k \in 1..Len(predictions[l][i]) :
                      /\ j < k
                      /\ predictions[l][i][j] = "1"
                      /\ predictions[l][i][k] = "0"
                      /\ \A m \in 1..(j - 1) : predictions[l][i][m] # "0"
               /\ binary_predictions[l][i] = Known(0)
        /\ \E i \in 1..Len(binary_predictions[l]) : binary_predictions[l][i] = Unknown

\* C2: a record for which the model emitted "Answer: 1" has the extracted
\* label 1.
C2_AnswerOneGivesOne ==
    \A l \in Languages : \A i \in 1..Len(binary_predictions[l]) :
        continuations[l][i] = AnswerOne => binary_predictions[l][i] = Known(1)

\* C4: the accuracy is the number of records whose extracted label is known
\* and equal to the true label, over the number of all records of the test
\* set, those with an unknown label included.
C4_Accuracy ==
    \A l \in Languages :
        accuracy[l] # <<>> =>
            /\ accuracy[l][1] =
                   Cardinality({i \in 1..Len(test_df) :
                                   /\ binary_predictions[l][i] # Unknown
                                   /\ binary_predictions[l][i][1] = test_df[i].label})
            /\ accuracy[l][2] = Len(test_df)

\* an accuracy was computed over a test set with a correct and an unknown label
C4_Witness ==
    \E l \in Languages :
        /\ accuracy[l] # <<>>
        /\ accuracy[l][1] >= 1
        /\ \E i \in 1..Len(binary_predictions[l]) : binary_predictions[l][i] = Unknown

\* C5: at every point of a zero-shot cell the i-th prediction is the one made
\* for the i-th record of the test set (its prompt followed by what the model
\* emitted for it); once the labels are extracted there is one prediction and
\* one label per record, the unknown ones included, and the results file holds
\* the records in the order of the test set.
C5_OnePerRecordInOrder ==
    \A l \in Languages :
        /\ Len(predictions[l]) <= Len(hf_dataset[l])
        /\ \A i \in 1..Len(predictions[l]) :
               /\ hf_dataset[l][i].id = test_df[i].id
               /\ predictions[l][i] = Strip(PromptOf(l, i) \o continuations[l][i])
        /\ binary_predictions[l] # <<>> =>
               /\ Len(predictions[l]) = Len(test_df)
               /\ Len(binary_predictions[l]) = Len(test_df)
               /\ \A i \in 1..Len(test_df) :
                      binary_predictions[l][i] = binary_label(predictions[l][i])
        /\ results_csv[l] # <<>> =>
               /\ Len(results_csv[l]) = Len(test_df)
               /\ \A i \in 1..Len(test_df) :
                      /\ results_csv[l][i].row.id = test_df[i].id
                      /\ results_csv[l][i].predictions = predictions[l][i]
                      /\ results_csv[l][i].binary_predictions = binary_predictions[l][i]

\* a results file was written after several batches, for records whose
\* prompts and continuations differ
C5_Witness ==
    /\ pc = "zs_print"
    /\ batch_size = 1
    /\ Len(test_df) >= 2
    /\ prompt_template # DefaultTemplate
    /\ continuations[lang][1] # continuations[lang][2]
    /\ results_csv[lang] # <<>>

----------------------------------------------------------------------------
(* Fine-tuning: prepare_datasets_for_training, train_model, evaluate_model  *)
(* and the cell that saves the model.  The Trainer runs with               *)
(* eval_strategy = save_strategy = "epoch", num_train_epochs = 3,          *)
(* save_total_limit = 2 and load_best_model_at_end = True, which makes     *)
(* metric_for_best_model "loss" and greater_is_better False.               *)

\* the evaluation losses an epoch's weights can have on the test set
Losses == 1..MaxLoss

\* a notebook that tokenizes text whatever the task
AlwaysTextColumn(t) == "text"

\* the text column the task's notebook tokenizes
TokenizedColumn(t) == IF t = 1 THEN "text" ELSE "text_en"

\* tokenize_function, remove_columns and rename_column on one record: the
\* tokens of the text column, cut to MAX_LENGTH, and the label as labels
tokenize_function(r, t) ==
    [input_ids |-> Prefix(Column(r, TokenizedColumn(t)), MAX_LENGTH),
     labels |-> r.label]

prepare_datasets_for_training(d, t) ==
    [i \in 1..Len(d) |-> tokenize_function(d[i], t)]

\* the operator (np.less for a loss) by which _save_checkpoint decides that
\* an epoch's metric is a new best
IsNewBest(metric, best) == best = <<>> \/ metric < best[1]

\* _sorted_checkpoints without the lines that move the best checkpoint: the
\* checkpoints by step number alone
SortedByStepOnly(ckpts, best) == SortedSeq(Range(ckpts))

\* Trainer._sorted_checkpoints: the checkpoints by step number, the best one
\* moved up, by swaps with its successor, to the last but one place
SortedCheckpoints(ckpts, best) ==
    LET sorted == SortedSeq(Range(ckpts))
        n == Len(sorted)
    IN  IF best = <<>> \/ best[1] \notin Range(sorted)
        THEN sorted
        ELSE LET b == CHOOSE i \in 1..n : sorted[i] = best[1]
             IN  IF b >= n - 1
                 THEN sorted
                 ELSE [i \in 1..n |->
                          IF i < b THEN sorted[i]
                          ELSE IF i < n - 1 THEN sorted[i + 1]
                          ELSE IF i = n - 1 THEN sorted[b]
                          ELSE sorted[n]]

\* Trainer._rotate_checkpoints: with more than save_total_limit checkpoints,
\* the first ones of the sorted list are deleted
RotateCheckpoints(ckpts, best) ==
    LET sorted == SortedCheckpoints(ckpts, best)
        n == Len(sorted)
    IN  IF n <= SAVE_TOTAL_LIMIT
        THEN sorted
        ELSE SortedSeq({sorted[i] : i \in (n - SAVE_TOTAL_LIMIT + 1)..n})

\* at the end of train() the final weights stay in the model
KeepFinalWeights(current, best, ckpts) == current

\* Trainer._load_best_model: the weights of best_model_checkpoint are loaded
\* into the model; if that directory is gone a warning is logged and the
\* model keeps its weights
LoadBestModel(current, best, ckpts) ==
    IF best # <<>> /\ best[1] \in Range(ckpts) THEN best[1] ELSE current

\* the logits the classification head (num_labels=2) can give a record
LogitValues == {-1, 0, 1}
LogitPairs == LogitValues \X LogitValues

\* an argmax that returns the last of two equal maxima
argmax_last(pair) == IF pair[2] >= pair[1] THEN 1 ELSE 0

\* predictions.predictions.argmax(axis=-1): the index of the first maximum
argmax(pair) == IF pair[2] > pair[1] THEN 1 ELSE 0

\* accuracy_score(labels, preds): the share of equal entries, as a pair
accuracy_score(labels, p) ==
    <<Cardinality({i \in 1..Len(labels) : labels[i] = p[i]}), Len(labels)>>

\* the counts f1_score works with, for class c
Support(labels, c) == Cardinality({i \in 1..Len(labels) : labels[i] = c})
Predicted(p, c) == Cardinality({i \in 1..Len(p) : p[i] = c})
TruePositives(labels, p, c) ==
    Cardinality({i \in 1..Len(labels) : labels[i] = c /\ p[i] = c})

\* f1_score(labels, preds, average="weighted"): per class
\* 2 tp / (support + predicted), 0 for a class with no true and no predicted
\* record, averaged with the supports as weights; as <<numerator, denominator>>
f1_score(labels, p) ==
    LET d0 == Support(labels, 0) + Predicted(p, 0)
        d1 == Support(labels, 1) + Predicted(p, 1)
        D0 == IF d0 = 0 THEN 1 ELSE d0
        D1 == IF d1 = 0 THEN 1 ELSE d1
    IN  <<Support(labels, 0) * 2 * TruePositives(labels, p, 0) * D1
            + Support(labels, 1) * 2 * TruePositives(labels, p, 1) * D0,
          Len(labels) * D0 * D1>>

\* a Trainer built with eval_dataset=train_dataset
EvalOnTrainDataset(train_ds, test_ds) == train_ds

\* Trainer(train_dataset=train_dataset, eval_dataset=test_dataset)
TrainerEvalDataset(train_ds, test_ds) == test_ds

\* save_strategy="no": no checkpoint is written
no_save_strategy == "no"

\* save_strategy="epoch": a checkpoint at the end of each epoch
save_strategy == "epoch"

\* a cell that starts evaluate_model while train_model still runs
train_model_detached == pc = "evaluate_model" \/ (pc = "train" /\ epoch >= 1)

\* evaluate_model is the statement after train_model in its cell: it runs
\* once train_model has returned
train_model_returned == pc = "evaluate_model"

\* an entry of the log of calls into the Trainer
Call(op, ds) == [op |-> op, data |-> ds]

\* one epoch of trainer.train(): the optimizer steps leave the model with
\* the weights of that epoch; before the first one the Trainer is built
TrainEpochStep ==
    /\ pc = "train"
    /\ epoch < NUM_TRAIN_EPOCHS
    /\ epoch' = epoch + 1
    /\ model_weights' = epoch + 1
    /\ eval_dataset' =
           IF epoch = 0
           THEN <<TrainerEvalDataset(train_dataset, test_dataset)>>
           ELSE eval_dataset
    /\ trainer_log' =
           IF epoch = 0
           THEN trainer_log \o <<Call("train", train_dataset), Call("epoch", train_dataset)>>
           ELSE Append(trainer_log, Call("epoch", train_dataset))
    /\ pc' = "train_eval"
    /\ UNCHANGED <<logits, ft_preds, ft_accuracy, ft_f1>>
    /\ UNCHANGED <<task, test_size, splitVars, countVars, inputVars, envVars, fsVars,
                   zsVars, loaded,
                   fileVars, train_dataset, test_dataset, eval_loss, checkpoints,
                   best_metric, best_model_checkpoint, final_eval,
                   evaluated_weights, saved_model>>

\* the evaluation at the end of the epoch, on eval_dataset = test_dataset
EvaluateEpochStep ==
    /\ pc = "train_eval"
    /\ \E loss \in Losses : eval_loss' = Append(eval_loss, loss)
    /\ trainer_log' = Append(trainer_log, Call("evaluate", eval_dataset[1]))
    /\ pc' = IF save_strategy = "epoch" THEN "train_save"
             ELSE IF epoch = NUM_TRAIN_EPOCHS THEN "train_end" ELSE "train"
    /\ UNCHANGED <<eval_dataset, logits, ft_preds, ft_accuracy, ft_f1>>
    /\ UNCHANGED <<task, test_size, splitVars, countVars, inputVars, envVars, fsVars,
                   zsVars, loaded,
                   fileVars, train_dataset, test_dataset, epoch, model_weights,
                   checkpoints, best_metric, best_model_checkpoint, final_eval,
                   evaluated_weights, saved_model>>

\* Trainer._save_checkpoint at the end of the epoch: the checkpoint is
\* written, the best metric and checkpoint are updated, and the checkpoints
\* are rotated
SaveCheckpointStep ==
    /\ pc = "train_save"
    /\ LET metric == eval_loss[epoch]
           new_best == IsNewBest(metric, best_metric)
           best == IF new_best THEN <<epoch>> ELSE best_model_checkpoint
       IN  /\ best_metric' = IF new_best THEN <<metric>> ELSE best_metric
           /\ best_model_checkpoint' = best
           /\ checkpoints' = RotateCheckpoints(Append(checkpoints, epoch), best)
    /\ trainer_log' = Append(trainer_log, Call("save", <<>>))
    /\ pc' = IF epoch = NUM_TRAIN_EPOCHS THEN "train_end" ELSE "train"
    /\ UNCHANGED <<eval_dataset, logits, ft_preds, ft_accuracy, ft_f1>>
    /\ UNCHANGED <<task, test_size, splitVars, countVars, inputVars, envVars, fsVars,
                   zsVars, loaded,
                   fileVars, train_dataset, test_dataset, epoch, model_weights,
                   eval_loss, final_eval, evaluated_weights, saved_model>>

\* the end of trainer.train() with load_best_model_at_end
LoadBestModelStep ==
    /\ pc = "train_end"
    /\ model_weights' = LoadBestModel(model_weights, best_model_checkpoint, checkpoints)
    /\ trainer_log' = Append(trainer_log, Call("train_end", <<>>))
    /\ pc' = "trainer_evaluate"
    /\ UNCHANGED <<eval_dataset, logits, ft_preds, ft_accuracy, ft_f1>>
    /\ UNCHANGED <<task, test_size, splitVars, countVars, inputVars, envVars, fsVars,
                   zsVars, loaded,
                   fileVars, train_dataset, test_dataset, epoch, eval_loss,
                   checkpoints, best_metric, best_model_checkpoint, final_eval,
                   evaluated_weights, saved_model>>

\* results = trainer.evaluate(): the loss of the weights the model holds, on
\* the same test set as during training
TrainerEvaluateStep ==
    /\ pc = "trainer_evaluate"
    /\ final_eval' = <<eval_loss[model_weights]>>
    /\ trainer_log' = Append(trainer_log, Call("evaluate", eval_dataset[1]))
    /\ pc' = "evaluate_model"
    /\ UNCHANGED <<eval_dataset, logits, ft_preds, ft_accuracy, ft_f1>>
    /\ UNCHANGED <<task, test_size, splitVars, countVars, inputVars, envVars, fsVars,
                   zsVars, loaded,
                   fileVars, train_dataset, test_dataset, epoch, model_weights,
                   eval_loss, checkpoints, best_metric, best_model_checkpoint,
                   evaluated_weights, saved_model>>

\* accuracy, f1 = evaluate_model(trainer, test_dataset): trainer.predict on
\* the test dataset with the weights the model holds, the argmax of each
\* record's logits, and the two metrics against label_ids
EvaluateModelStep ==
    /\ train_model_returned
    /\ evaluated_weights' = <<model_weights>>
    /\ trainer_log' = Append(trainer_log, Call("predict", test_dataset))
    /\ \E out \in [1..Len(test_dataset) -> logit_pairs] :
           LET p == [i \in 1..Len(test_dataset) |-> argmax(out[i])]
               labels == [i \in 1..Len(test_dataset) |-> test_dataset[i].labels]
           IN  /\ logits' = out
               /\ ft_preds' = p
               /\ ft_accuracy' = accuracy_score(labels, p)
               /\ ft_f1' = f1_score(labels, p)
    /\ pc' = "save_model"
    /\ UNCHANGED eval_dataset
    /\ UNCHANGED <<task, test_size, splitVars, countVars, inputVars, envVars, fsVars,
                   zsVars, loaded,
                   fileVars, train_dataset, test_dataset, trainerVars, saved_model>>

\* a notebook whose save cell runs in place of the evaluation cell
SaveModelBeforeEvaluation ==
    /\ pc = "evaluate_model"
    /\ saved_model' = <<model_weights>>
    /\ pc' = "zero_shot_setup"
    /\ UNCHANGED <<task, evalVars, test_size, splitVars, countVars, inputVars, envVars, fsVars,
                   zsVars, loaded,
                   fileVars, train_dataset, test_dataset, trainerVars,
                   evaluated_weights>>

\* the cell after it: model.save_pretrained and tokenizer.save_pretrained
SaveModelCell ==
    /\ pc = "save_model"
    /\ saved_model' = <<model_weights>>
    /\ pc' = "zero_shot_setup"
    /\ UNCHANGED <<task, evalVars, test_size, splitVars, countVars, inputVars, envVars, fsVars,
                   zsVars, loaded,
                   fileVars, train_dataset, test_dataset, trainerVars,
                   evaluated_weights>>

TrainSteps ==
    \/ TrainEpochStep
    \/ EvaluateEpochStep
    \/ SaveCheckpointStep
    \/ LoadBestModelStep
    \/ TrainerEvaluateStep
    \/ EvaluateModelStep
    \/ SaveModelCell

\* a fine-tuning run on its own: the datasets are prepared, the output
\* directory holds no checkpoint
TrainingRecords == <<MkRecord(1, 0), MkRecord(2, 1)>>
EvaluationRecords == <<MkRecord(3, 1), MkRecord(4, 0), MkRecord(5, 1)>>

InitTrain ==
    /\ task \in {1, 2}
    /\ pc = "train"
    /\ test_size = TRAIN_TEST_SPLIT_RATIO
    /\ tsv_file = <<>>
    /\ responses = {}
    /\ logit_pairs = LogitPairs
    /\ SplitIdle
    /\ CountsIdle
    /\ ZeroShotIdle
    /\ FilesIdle
    /\ train_dataset = prepare_datasets_for_training(TrainingRecords, task)
    /\ test_dataset = prepare_datasets_for_training(EvaluationRecords, task)
    /\ TrainerIdle
    /\ EnvIdle

NextTrain == TrainSteps

SpecTrain == InitTrain /\ [][NextTrain]_vars

----------------------------------------------------------------------------
(* Properties of the fine-tuning run *)

\* epoch e has the lowest of the evaluation losses logged so far
LowestLoss(e) ==
    /\ e \in 1..Len(eval_loss)
    /\ \A e2 \in 1..Len(eval_loss) : eval_loss[e] <= eval_loss[e2]

\* C9: once training is over, the weights the model holds are those of the
\* epoch with the lowest evaluation loss; the loss trainer.evaluate() reports,
\* the metrics of evaluate_model and the saved model are those of these
\* weights, whether or not that epoch is the last one.
C9_BestModelRetained ==
    /\ final_eval # <<>> =>
           /\ LowestLoss(model_weights)
           /\ final_eval[1] = eval_loss[model_weights]
    /\ evaluated_weights # <<>> => LowestLoss(evaluated_weights[1])
    /\ saved_model # <<>> =>
           /\ LowestLoss(saved_model[1])
           /\ saved_model = evaluated_weights

\* the saved model is that of an epoch before the last, whose loss was lower
C9_Witness ==
    /\ saved_model # <<>>
    /\ epoch = NUM_TRAIN_EPOCHS
    /\ saved_model[1] < NUM_TRAIN_EPOCHS
    /\ eval_loss[saved_model[1]] < eval_loss[NUM_TRAIN_EPOCHS]

----------------------------------------------------------------------------
(* The notebook from its first cell to its last *)

FormatLabel(l) == IF l = 0 THEN <<"0">> ELSE <<"1">>
ParseLabel(s) == IF s = <<"0">> THEN 0 ELSE 1

\* DataFrame.to_csv(filepath, index=False): the rows in order, the label
\* written as its digit
to_csv(d) ==
    [i \in 1..Len(d) |->
        [id |-> d[i].id, text |-> d[i].text, text_en |-> d[i].text_en,
         label |-> FormatLabel(d[i].label)]]

\* pd.read_csv(filepath): the rows in order, the label parsed, an empty
\* field read as missing
read_csv(rows) ==
    [i \in 1..Len(rows) |->
        [id |-> rows[i].id, text |-> rows[i].text, text_en |-> rows[i].text_en,
         label |-> ParseLabel(rows[i].label),
         nulls |-> {f \in {"text", "text_en"} :
                       (IF f = "text" THEN rows[i].text ELSE rows[i].text_en) = <<>>}]]

\* cell 11: save_datasets(train, test, ...)
SaveDatasetsCell ==
    /\ pc = "save"
    /\ train_csv' = to_csv(train)
    /\ test_csv' = to_csv(test)
    /\ pc' = "prepare"
    /\ UNCHANGED <<task, evalVars, test_size, splitVars, countVars, inputVars, envVars, fsVars,
                   zsVars, loaded,
                   trainVars>>

\* cells 12 and 13: the tokenizer and prepare_datasets_for_training
PrepareDatasetsCell ==
    /\ pc = "prepare"
    /\ train_dataset' = prepare_datasets_for_training(train, task)
    /\ test_dataset' = prepare_datasets_for_training(test, task)
    /\ pc' = "train"
    /\ UNCHANGED <<task, evalVars, test_size, splitVars, countVars, inputVars, envVars, fsVars,
                   zsVars, loaded,
                   fileVars, trainerVars, evaluated_weights, saved_model>>

\* a setup cell that reads the processed train file
ProcessedTrainFile == train_csv

\* the file the setup cell reads: <task>_test_processed.csv
ProcessedTestFile == test_csv

\* the cell that reads the test file back and builds the pipeline
ZeroShotSetupCell ==
    /\ pc = "zero_shot_setup"
    /\ test_df' = read_csv(ProcessedTestFile)
    /\ pc' = "turkish_cell"
    /\ UNCHANGED <<task, evalVars, test_size, splitVars, countVars, inputVars, envVars, fsVars,
                   loaded, pipeVars,
                   cellVars, hf_dataset, predictions, continuations,
                   binary_predictions, accuracy, results_csv, printed>>

\* the Turkish cell begins: its column, its prompt and its batch size
TurkishCell ==
    /\ pc = "turkish_cell"
    /\ lang' = "turkish"
    /\ column_name' = "text"
    /\ prompt_template' = turkish_prompt(task)
    /\ batch_size' = BATCH_SIZE
    /\ pc' = "zs_limit"
    /\ UNCHANGED <<task, evalVars, test_size, splitVars, countVars, inputVars, envVars, fsVars,
                   loaded, pipeVars,
                   test_df, hf_dataset, predictions, continuations,
                   binary_predictions, accuracy, results_csv, printed>>

\* the English cell begins
EnglishCell ==
    /\ pc = "english_cell"
    /\ lang' = "english"
    /\ column_name' = "text_en"
    /\ prompt_template' = english_prompt(task)
    /\ batch_size' = BATCH_SIZE
    /\ pc' = "zs_limit"
    /\ UNCHANGED <<task, evalVars, test_size, splitVars, countVars, inputVars, envVars, fsVars,
                   loaded, pipeVars,
                   test_df, hf_dataset, predictions, continuations,
                   binary_predictions, accuracy, results_csv, printed>>

\* the files the whole notebook is run on: two records of each label and a
\* row with a missing text, or two records of one label
PipelineFiles ==
    {<<MkRecord(1, 0), MkRecord(2, 1),
       [MkRecord(3, 0) EXCEPT !.text = <<>>, !.nulls = {"text"}],
       MkRecord(4, 0), MkRecord(5, 1)>>,
     <<MkRecord(1, 1), MkRecord(2, 1)>>}

\* the logits the classifier gives in a run of the whole notebook
PipelineLogits == {<<0, 1>>}

PipelineResponses == {AnswerOne, <<"x">>}

Init ==
    /\ task \in {1, 2}
    /\ pc = "load"
    /\ test_size \in TestSizes
    /\ tsv_file \in PipelineFiles
    /\ responses = PipelineResponses
    /\ logit_pairs = PipelineLogits
    /\ SplitIdle
    /\ CountsIdle
    /\ ZeroShotIdle
    /\ PipelineIdle

Next ==
    \/ LoadCell
    \/ StratifiedSplitCell
    \/ SaveDatasetsCell
    \/ PrepareDatasetsCell
    \/ TrainSteps
    \/ ZeroShotSetupCell
    \/ TurkishCell
    \/ EnglishCell
    \/ ZeroShotSteps

Spec == Init /\ [][Next]_vars

\* C8: the split is not run before the load cell has run; no checkpoint, no
\* tokenized dataset, no training epoch and no zero-shot dataset exists before
\* the split has returned; a branch's metrics are computed only once its
\* predictions exist (the trained model for the fine-tuned branch, one
\* extracted label per test record for a zero-shot branch); the saved model
\* and a results file are written only after their branch's metrics, and a
\* checkpoint only after the evaluation of its epoch.
C8_StageOrder ==
    /\ (nSplitCalls > 0 \/ splitResults # {}) => loaded
    /\ (test_csv # <<>> \/ train_csv # <<>>) => splitResults # {}
    /\ (train_dataset # <<>> \/ epoch > 0 \/ checkpoints # <<>>) => splitResults # {}
    /\ \A l \in Languages :
           (hf_dataset[l] # <<>> \/ predictions[l] # <<>>) => splitResults # {}
    /\ evaluated_weights # <<>> => (epoch = NUM_TRAIN_EPOCHS /\ final_eval # <<>>)
    /\ \A l \in Languages :
           accuracy[l] # <<>> =>
               /\ Len(predictions[l]) = Len(test_df)
               /\ Len(binary_predictions[l]) = Len(test_df)
    /\ saved_model # <<>> => evaluated_weights # <<>>
    /\ \A l \in Languages : results_csv[l] # <<>> => accuracy[l] # <<>>
    /\ \A c \in Range(checkpoints) : c <= Len(eval_loss)

\* the notebook ran to its end: the model and both results files are written
C8_Witness ==
    /\ pc = "done"
    /\ loaded
    /\ saved_model # <<>>
    /\ \A l \in Languages : results_csv[l] # <<>> /\ accuracy[l] # <<>>

----------------------------------------------------------------------------
(* Properties of the prepared datasets and of failing cells *)

\* the tokens of the task's configured text field, cut to MAX_LENGTH
ConfiguredField(r) == Prefix(IF task = 1 THEN r.text ELSE r.text_en, MAX_LENGTH)

\* C18: the prepared train and test datasets hold, record by record, the
\* encoding of text in task 1 and of text_en in task 2, with the record's
\* label, and nothing of the other text field.
C18_ConfiguredTextField ==
    /\ train_dataset # <<>> =>
           /\ Len(train_dataset) = Len(train)
           /\ \A i \in 1..Len(train) :
                  /\ train_dataset[i].input_ids = ConfiguredField(train[i])
                  /\ train_dataset[i].labels = train[i].label
    /\ test_dataset # <<>> =>
           /\ Len(test_dataset) = Len(test)
           /\ \A i \in 1..Len(test) :
                  /\ test_dataset[i].input_ids = ConfiguredField(test[i])
                  /\ test_dataset[i].labels = test[i].label

\* task 2 has trained on datasets whose records were encoded from text_en
C18_Witness ==
    /\ task = 2
    /\ epoch = NUM_TRAIN_EPOCHS
    /\ train_dataset # <<>> /\ test_dataset # <<>>
    /\ \A i \in 1..Len(test) : test_dataset[i].input_ids = test[i].text_en
    /\ \A i \in 1..Len(test) : test[i].text_en # test[i].text

\* C12: when the write of a results file has failed, the accuracy computed
\* before it is still there and has been reported.
C12_AccuracyReportedAfterFailedWrite ==
    error = <<"OSError">> => (accuracy[lang] # <<>> /\ lang \in printed)

\* C13: a batch whose generation has failed does not end the zero-shot run.
C13_FailedBatchDoesNotAbort ==
    error = <<"PipelineError">> => pc # "failed"

----------------------------------------------------------------------------
(* The two zero-shot cells of a notebook, run one after the other *)

InitCells ==
    /\ task \in {1, 2}
    /\ pc = "turkish_cell"
    /\ test_size = TRAIN_TEST_SPLIT_RATIO
    /\ tsv_file = <<>>
    /\ responses = PipelineResponses
    /\ logit_pairs = {}
    /\ SplitIdle
    /\ CountsIdle
    /\ PipelineIdle
    /\ test_df \in TestSets
    /\ lang = "turkish" /\ column_name = "text" /\ prompt_template = <<>>
    /\ batch_size = BATCH_SIZE
    /\ hf_dataset = NonePerLanguage
    /\ predictions = NonePerLanguage
    /\ continuations = NonePerLanguage
    /\ binary_predictions = NonePerLanguage
    /\ accuracy = NonePerLanguage
    /\ results_csv = NonePerLanguage
    /\ printed = {}

NextCells == TurkishCell \/ EnglishCell \/ ZeroShotSteps

\* the kernel runs the cells it was given until one raises or the last is done
SpecCells == InitCells /\ [][NextCells]_vars /\ WF_vars(NextCells)

\* an exception ended the zero-shot cell of language l
CellFailed(l) ==
    /\ pc = "failed"
    /\ lang = l
    /\ error \in {<<"PipelineError">>, <<"ZeroDivisionError">>, <<"OSError">>}

\* C11: when the Turkish cell has failed, the English cell still runs, to its
\* results file or to a failure of its own.
C11_SiblingStillRuns ==
    [](CellFailed("turkish") => <>(results_csv["english"] # <<>> \/ CellFailed("english")))

----------------------------------------------------------------------------
(* A zero-shot cell on texts around the length limit *)

\* a text of n characters, those after the limit marked
LongText(n, c) == [i \in 1..n |-> IF i > TEXT_LIMIT THEN "z" ELSE c]

LongLengths == (TEXT_LIMIT - 1)..(TEXT_LIMIT + 2)

\* a record whose text has n characters and whose text_en has as many more
\* than the limit as text has fewer
LongRecord(id, label, n) ==
    [MkRecord(id, label) EXCEPT !.text = LongText(n, "t"),
                                !.text_en = LongText(2 * TEXT_LIMIT + 1 - n, "e")]

LongTestSets ==
    UNION {{[i \in 1..k |-> LongRecord(i, y[i], n[i])] :
               y \in [1..k -> Labels], n \in [1..k -> LongLengths]} : k \in 1..2}

InitLimit ==
    /\ task \in {1, 2}
    /\ pc = "zs_limit"
    /\ test_size = TRAIN_TEST_SPLIT_RATIO
    /\ tsv_file = <<>>
    /\ responses = PipelineResponses
    /\ logit_pairs = {}
    /\ SplitIdle
    /\ CountsIdle
    /\ PipelineIdle
    /\ test_df \in LongTestSets
    /\ \/ lang = "turkish" /\ column_name = "text"
          /\ prompt_template = turkish_prompt(task)
       \/ lang = "english" /\ column_name = "text_en"
          /\ prompt_template = english_prompt(task)
    /\ batch_size = BATCH_SIZE
    /\ hf_dataset = NonePerLanguage
    /\ predictions = NonePerLanguage
    /\ continuations = NonePerLanguage
    /\ binary_predictions = NonePerLanguage
    /\ accuracy = NonePerLanguage
    /\ results_csv = NonePerLanguage
    /\ printed = {}

NextLimit == ZeroShotSteps

SpecLimit == InitLimit /\ [][NextLimit]_vars

\* C19: in the cell's dataset the chosen text field of every record is the
\* record's text if that has at most 500 characters, else its first 500
\* characters, and no prompt holds more than 500 characters of text.
C19_TextLimit ==
    /\ hf_dataset[lang] # <<>> =>
           /\ Len(hf_dataset[lang]) = Len(test_df)
           /\ \A i \in 1..Len(test_df) :
                  LET orig == Column(test_df[i], column_name)
                      cut == Column(hf_dataset[lang][i], column_name)
                  IN  /\ Len(cut) <= 500
                      /\ Len(orig) <= 500 => cut = orig
                      /\ Len(orig) > 500 =>
                             /\ Len(cut) = 500
                             /\ \A k \in 1..500 : cut[k] = orig[k]
    /\ \A g \in generated : Len(g[1][1]) <= Len(prompt_template) - 1 + 500

\* predictions were made for a record whose text has more than 500 characters
\* and for one whose text has fewer
C19_Witness ==
    /\ pc = "zs_print"
    /\ \E i \in 1..Len(test_df) :
           /\ Len(Column(test_df[i], column_name)) > 500
           /\ Len(Column(hf_dataset[lang][i], column_name)) = 500
    /\ \E i \in 1..Len(test_df) :
           /\ Len(Column(test_df[i], column_name)) < 500
           /\ Column(hf_dataset[lang][i], column_name) = Column(test_df[i], column_name)

----------------------------------------------------------------------------
(* A zero-shot cell run again with another batch size *)

\* the cell is run again: what the run before it produced is kept aside
RerunZeroShotCell ==
    /\ pc \in {"english_cell", "done"}
    /\ Cardinality(cell_runs) < MaxCellRuns
    /\ cell_runs' = cell_runs \cup {[batch_size |-> batch_size,
                                     predictions |-> predictions[lang],
                                     binary_predictions |-> binary_predictions[lang]]}
    /\ \E b \in BatchSizes : batch_size' = b
    /\ hf_dataset' = [hf_dataset EXCEPT ![lang] = <<>>]
    /\ predictions' = [predictions EXCEPT ![lang] = <<>>]
    /\ continuations' = [continuations EXCEPT ![lang] = <<>>]
    /\ binary_predictions' = [binary_predictions EXCEPT ![lang] = <<>>]
    /\ accuracy' = [accuracy EXCEPT ![lang] = <<>>]
    /\ pc' = "zs_limit"
    /\ UNCHANGED <<task, evalVars, test_size, splitVars, countVars, inputVars, error,
                   generated, fsVars, loaded, pipeVars, test_df, lang, column_name,
                   prompt_template, results_csv, printed>>

NextBatch == ZeroShotSteps \/ RerunZeroShotCell

SpecBatch == InitZeroShot /\ [][NextBatch]_vars

\* C20: a run of the cell gives every record the prediction and the label
\* that every earlier run of the cell gave it, whatever their batch sizes.
C20_BatchSizeNotSemantic ==
    /\ \A r \in cell_runs :
           /\ \A i \in 1..Len(predictions[lang]) :
                  predictions[lang][i] = r.predictions[i]
           /\ \A i \in 1..Len(binary_predictions[lang]) :
                  binary_predictions[lang][i] = r.binary_predictions[i]
    /\ \A r1, r2 \in cell_runs :
           /\ r1.predictions = r2.predictions
           /\ r1.binary_predictions = r2.binary_predictions

\* two records with different predictions were classified in batches of 1,
\* then in one batch of 2
C20_Witness ==
    /\ \E r \in cell_runs : r.batch_size = 1
    /\ batch_size = 2
    /\ Len(test_df) = 2
    /\ Len(binary_predictions[lang]) = 2
    /\ predictions[lang][1] # predictions[lang][2]
    /\ binary_predictions[lang][1] # binary_predictions[lang][2]

----------------------------------------------------------------------------
(* The two notebooks run side by side in one directory: what they write *)

Tasks == {1, 2}

TrainCsvPath(t) ==
    IF t = 1 THEN "orientation_train_processed.csv" ELSE "power_train_processed.csv"

TestCsvPath(t) ==
    IF t = 1 THEN "orientation_test_processed.csv" ELSE "power_test_processed.csv"

\* output_dir and logging_dir of TrainingArguments
OutputDir(t) == IF t = 1 THEN "./results_task1" ELSE "./results_task2"
LoggingDir(t) == "./logs"

\* the directory of save_pretrained
ModelDir(t) == IF t = 1 THEN "./task1_multilingual_bert" ELSE "./task2_multilingual_bert"

ResultsCsvPath(t, l) ==
    IF t = 1
    THEN (IF l = "turkish" THEN "task1_bloomz_turkish_results_binary.csv"
          ELSE "task1_bloomz_english_results_binary.csv")
    ELSE (IF l = "turkish" THEN "task2_bloomz_turkish_results_binary.csv"
          ELSE "task2_bloomz_english_results_binary.csv")

\* the paths a notebook writes to, in the order of its cells: the split
\* files, per epoch the logs and a checkpoint, the model and the tokenizer,
\* the two results files
TaskWrites(t) ==
    <<TrainCsvPath(t), TestCsvPath(t)>>
        \o [i \in 1..(2 * NUM_TRAIN_EPOCHS) |->
               IF i % 2 = 1 THEN LoggingDir(t) ELSE OutputDir(t)]
        \o <<ModelDir(t), ModelDir(t),
             ResultsCsvPath(t, "turkish"), ResultsCsvPath(t, "english")>>

\* the next write of task t's notebook
WriteStep(t) ==
    /\ progress[t] < Len(TaskWrites(t))
    /\ progress' = [progress EXCEPT ![t] = @ + 1]
    /\ written' = written \cup {<<TaskWrites(t)[progress[t] + 1], t>>}
    /\ UNCHANGED <<task, evalVars, pc, test_size, splitVars, countVars, inputVars, zsVars,
                   loaded, pipeVars, envVars>>

InitParallel ==
    /\ task = 1
    /\ pc = "load"
    /\ test_size = TRAIN_TEST_SPLIT_RATIO
    /\ tsv_file = <<>>
    /\ responses = {}
    /\ logit_pairs = {}
    /\ SplitIdle
    /\ CountsIdle
    /\ ZeroShotIdle
    /\ PipelineIdle

NextParallel == WriteStep(1) \/ WriteStep(2)

SpecParallel == InitParallel /\ [][NextParallel]_vars

\* C17: no path is written to by both tasks.
C17_DisjointWrites ==
    \A w1, w2 \in written : w1[1] = w2[1] => w1[2] = w2[2]

----------------------------------------------------------------------------
(* What the zero-shot cells read, scan and leave behind *)

ShippedTemplates ==
    {turkish_prompt(1), english_prompt(1), turkish_prompt(2), english_prompt(2)}

\* s holds "(0)"
HoldsZeroInBrackets(s) ==
    \E k \in 1..(Len(s) - 2) : s[k] = "(" /\ s[k + 1] = "0" /\ s[k + 2] = ")"

\* C24: each of the four shipped templates holds "(0)"; a prediction made
\* with one of them begins with the prompt, and its extracted label is 0
\* whatever the model emitted, never 1 and never unknown.
C24_ShippedTemplatesGiveZero ==
    /\ \A t \in ShippedTemplates : HoldsZeroInBrackets(t)
    /\ prompt_template \in ShippedTemplates =>
           /\ \A i \in 1..Len(predictions[lang]) :
                  /\ Len(predictions[lang][i]) >= Len(PromptOf(lang, i))
                  /\ SubSeq(predictions[lang][i], 1, Len(PromptOf(lang, i)))
                         = PromptOf(lang, i)
           /\ \A i \in 1..Len(binary_predictions[lang]) :
                  binary_predictions[lang][i] = Known(0)

\* with a shipped template, a record of label 1 for which the model emitted
\* "Answer: 1" and a record for which it emitted no digit both got label 0
C24_Witness ==
    /\ prompt_template \in ShippedTemplates
    /\ Len(binary_predictions[lang]) = 2
    /\ \E i \in 1..2 :
           /\ continuations[lang][i] = AnswerOne
           /\ test_df[i].label = 1
           /\ binary_predictions[lang][i] = Known(0)
    /\ \E i \in 1..2 :
           /\ continuations[lang][i] = <<"x">>
           /\ binary_predictions[lang][i] = Known(0)

\* how often t occurs in s
Occurrences(s, t) ==
    Cardinality({k \in 1..(Len(s) - Len(t) + 1) : SubSeq(s, k, k + Len(t) - 1) = t})

\* C26: the prompt of every record is the template with its placeholder
\* replaced: it holds the record's truncated text exactly once and is as long
\* as the rest of the template and the text together.
C26_TextExactlyOnce ==
    \A l \in Languages : \A i \in 1..Len(predictions[l]) :
        LET text == Column(hf_dataset[l][i], IF l = "turkish" THEN "text" ELSE "text_en")
        IN  /\ Occurrences(PromptOf(l, i), text) = 1
            /\ Len(PromptOf(l, i)) = Len(prompt_template) - 1 + Len(text)

\* C21: after an error has ended the run, the predictions that were computed
\* before it are in the results file of their language.
C21_PartialResultsPersisted ==
    pc = "failed" =>
        \A l \in Languages :
            predictions[l] # <<>> =>
                /\ Len(results_csv[l]) = Len(predictions[l])
                /\ \A i \in 1..Len(predictions[l]) :
                       results_csv[l][i].predictions = predictions[l][i]

\* C27: the test set of the zero-shot cells is read from the processed test
\* file, which is written by then; it holds the records of the split's test
\* partition with their labels, in order, and no record of the train
\* partition; the datasets of both language variants hold these same records
\* and labels.
C27_ZeroShotOnPersistedTest ==
    /\ test_df # <<>> =>
           /\ test_csv # <<>>
           /\ Len(test_df) = Len(test)
           /\ \A i \in 1..Len(test) :
                  /\ test_df[i].id = test[i].id
                  /\ test_df[i].label = test[i].label
                  /\ test_df[i].text = test[i].text
                  /\ test_df[i].text_en = test[i].text_en
                  /\ \A j \in 1..Len(train) : train[j].id # test_df[i].id
    /\ \A l \in Languages :
           hf_dataset[l] # <<>> =>
               /\ test_csv # <<>>
               /\ Len(hf_dataset[l]) = Len(test)
               /\ \A i \in 1..Len(test) :
                      /\ hf_dataset[l][i].id = test[i].id
                      /\ hf_dataset[l][i].label = test[i].label

\* both cells have run on the test partition of a split with a train side
C27_Witness ==
    /\ pc = "done"
    /\ train # <<>>
    /\ Len(test) = 2
    /\ \A l \in Languages : Len(results_csv[l]) = 2

----------------------------------------------------------------------------
(* The two zero-shot cells on texts around the length limit *)

InitLongCells ==
    /\ task \in {1, 2}
    /\ pc = "turkish_cell"
    /\ test_size = TRAIN_TEST_SPLIT_RATIO
    /\ tsv_file = <<>>
    /\ responses = PipelineResponses
    /\ logit_pairs = {}
    /\ SplitIdle
    /\ CountsIdle
    /\ PipelineIdle
    /\ test_df \in LongTestSets
    /\ lang = "turkish" /\ column_name = "text" /\ prompt_template = <<>>
    /\ batch_size = BATCH_SIZE
    /\ hf_dataset = NonePerLanguage
    /\ predictions = NonePerLanguage
    /\ continuations = NonePerLanguage
    /\ binary_predictions = NonePerLanguage
    /\ accuracy = NonePerLanguage
    /\ results_csv = NonePerLanguage
    /\ printed = {}

NextLongCells == TurkishCell \/ EnglishCell \/ ZeroShotSteps

SpecLongCells == InitLongCells /\ [][NextLongCells]_vars

\* C28: in the Turkish cell's dataset text is cut and everything else is as
\* in the test set; in the English cell's dataset text_en is cut and
\* everything else, text at its full length included, is as in the test set.
C28_OnlySelectedColumnCut ==
    \A l \in Languages :
        hf_dataset[l] # <<>> =>
            /\ Len(hf_dataset[l]) = Len(test_df)
            /\ \A i \in 1..Len(test_df) :
                   LET r == hf_dataset[l][i]
                       o == test_df[i]
                   IN  /\ r.id = o.id
                       /\ r.label = o.label
                       /\ r.nulls = o.nulls
                       /\ l = "turkish" =>
                              (r.text_en = o.text_en /\ r.text = Prefix(o.text, 500))
                       /\ l = "english" =>
                              (r.text = o.text /\ r.text_en = Prefix(o.text_en, 500))

\* the Turkish cell has cut a text of more than 500 characters, which the
\* English cell's dataset holds at its full length
C28_Witness ==
    /\ pc = "done"
    /\ \E i \in 1..Len(test_df) :
           /\ Len(test_df[i].text) > 500
           /\ Len(hf_dataset["turkish"][i].text) = 500
           /\ hf_dataset["english"][i].text = test_df[i].text
    /\ \E i \in 1..Len(test_df) :
           /\ Len(test_df[i].text_en) > 500
           /\ Len(hf_dataset["english"][i].text_en) = 500
           /\ hf_dataset["turkish"][i].text_en = test_df[i].text_en

----------------------------------------------------------------------------
(* The calls into the Trainer and what evaluate_model computes *)

\* how many of the first k calls are op
CountOp(op, k) == Cardinality({j \in 1..k : trainer_log[j].op = op})

\* C22: at every point of the log at most one train() has begun and not
\* ended, train() is called once, and a predict comes after the end of that
\* train(), all epochs run, and is on the test dataset.
C22_FitThenPredict ==
    \A k \in 1..Len(trainer_log) :
        /\ CountOp("train", k) - CountOp("train_end", k) \in {0, 1}
        /\ CountOp("train", k) <= 1
        /\ trainer_log[k].op = "predict" =>
               /\ CountOp("train", k) = 1
               /\ CountOp("train_end", k) = 1
               /\ CountOp("epoch", k) = NUM_TRAIN_EPOCHS
               /\ trainer_log[k].data = test_dataset

\* evaluate_model has predicted on a test dataset after the three epochs
C22_Witness ==
    /\ pc = "save_model"
    /\ test_dataset # <<>>
    /\ trainer_log[Len(trainer_log)].op = "predict"
    /\ CountOp("train_end", Len(trainer_log)) = 1

RECURSIVE EpochCalls(_)
EpochCalls(n) ==
    IF n = 0 THEN <<>> ELSE EpochCalls(n - 1) \o <<"epoch", "evaluate", "save">>

\* C23: the calls of a fit are train, then per epoch one evaluation followed
\* by one checkpoint save, three times, then the end; every checkpoint in the
\* output directory is of an epoch with a recorded evaluation loss, and after
\* the fit there is one loss per epoch.
C23_EvaluateThenSavePerEpoch ==
    LET fit == <<"train">> \o EpochCalls(NUM_TRAIN_EPOCHS) \o <<"train_end">>
    IN  /\ \A k \in 1..Len(trainer_log) :
               k <= Len(fit) => trainer_log[k].op = fit[k]
        /\ \A c \in Range(checkpoints) : c \in 1..Len(eval_loss)
        /\ Len(eval_loss) \in {epoch - 1, epoch}
        /\ CountOp("save", Len(trainer_log)) <= CountOp("evaluate", Len(trainer_log))
        /\ pc \notin {"train", "train_eval", "train_save"} =>
               /\ Len(eval_loss) = NUM_TRAIN_EPOCHS
               /\ CountOp("save", Len(trainer_log)) = NUM_TRAIN_EPOCHS

\* the third epoch has ended with its evaluation and its save
C23_Witness ==
    /\ pc = "train_end"
    /\ Len(trainer_log) = 10
    /\ trainer_log[9].op = "evaluate" /\ trainer_log[10].op = "save"
    /\ Len(eval_loss) = 3
    /\ Len(checkpoints) = 2

\* C25: the Trainer's eval_dataset is the test dataset; every evaluation,
\* those at the end of the epochs that select the best checkpoint included,
\* and the predict of evaluate_model are on that one dataset, and the
\* accuracy counts all its records.
C25_SelectionOnReportedPartition ==
    /\ eval_dataset # <<>> => eval_dataset[1] = test_dataset
    /\ \A k \in 1..Len(trainer_log) :
           trainer_log[k].op \in {"evaluate", "predict"} =>
               trainer_log[k].data = test_dataset
    /\ ft_accuracy # <<>> => ft_accuracy[2] = Len(eval_dataset[1])

\* a best checkpoint was selected by evaluations on a test dataset that is
\* not the train dataset, and evaluate_model has predicted
C25_Witness ==
    /\ pc = "save_model"
    /\ train_dataset # test_dataset
    /\ best_model_checkpoint # <<>>
    /\ CountOp("evaluate", Len(trainer_log)) = NUM_TRAIN_EPOCHS + 1
    /\ CountOp("predict", Len(trainer_log)) = 1

\* C30: evaluate_model's label of every test record is 1 if the second
\* logit is the larger one and 0 otherwise, equal logits included, never
\* anything else; the accuracy is the share of records whose label equals the
\* true one, and the weighted F1 is that of these labels: 1 exactly when all
\* are right, and between 0 and 1.
C30_ArgmaxLabels ==
    ft_preds # <<>> =>
        LET n == Len(test_dataset)
            labels == [i \in 1..n |-> test_dataset[i].labels]
        IN  /\ Len(ft_preds) = n /\ Len(logits) = n
            /\ \A i \in 1..n :
                   /\ ft_preds[i] \in {0, 1}
                   /\ logits[i][2] > logits[i][1] => ft_preds[i] = 1
                   /\ logits[i][1] > logits[i][2] => ft_preds[i] = 0
                   /\ logits[i][1] = logits[i][2] => ft_preds[i] = 0
            /\ ft_accuracy = <<Cardinality({i \in 1..n : ft_preds[i] = labels[i]}), n>>
            /\ ft_f1 = f1_score(labels, ft_preds)
            /\ ft_f1[1] >= 0 /\ ft_f1[1] <= ft_f1[2] /\ ft_f1[2] > 0
            /\ ft_f1[1] = ft_f1[2] <=> ft_accuracy[1] = n
            /\ ft_f1[1] = 0 <=> ft_accuracy[1] = 0

\* a record of label 1 with equal logits was labelled 0, another record was
\* labelled 1, and the F1 is strictly between 0 and 1
C30_Witness ==
    /\ pc = "save_model"
    /\ \E i \in 1..Len(ft_preds) :
           /\ logits[i][1] = logits[i][2]
           /\ ft_preds[i] = 0
           /\ test_dataset[i].labels = 1
    /\ \E i \in 1..Len(ft_preds) : ft_preds[i] = 1
    /\ ft_f1[1] > 0 /\ ft_f1[1] < ft_f1[2]

====
